---- MODULE Spec2Model ----
(***************************************************************************)
(* Model of VirtualCursorView (obsidian-virtual-cursor): the controller    *)
(* that keeps one overlay element aligned with the editor's insertion      *)
(* point.  The controller object, its overlay element, the window's timer  *)
(* table and the editor's queue of measure requests are one record, vc, so *)
(* that every method is an operator from records to records and a method   *)
(* that calls another is a composition of operators.                       *)
(***************************************************************************)
EXTENDS Integers, Sequences, FiniteSets, TLC

VARIABLES
    view,      \* what the plugin reads of the EditorView: focus, selection, layout
    vc,        \* the VirtualCursorView, its overlay element, the window's pending
               \* timers (winTimers) and the editor's unread measure requests
    measured,  \* <<the CursorMeasurement>> between a read and its write, else <<>>
    raf,       \* animation-frame callbacks of onSelectionChange not yet run
    trig,      \* history: <<OR of the intents accepted since the last read>>
    last       \* history: the handler or branch that took the last step

vars == <<view, vc, measured, raf, trig, last>>

\* ---------------------------------------------------------------- bounds
MaxHead == 1
MaxScroll == 1
MaxRaf == 1

\* ------------------------------------------------------------- constants
\* null of `number | null` fields (phaseTimer, lastHead); heads are >= 0 and
\* timer ids are >= 1
Null == -1
\* style.height before the first write (the constructor never sets it)
Unset == -1
\* geometry of the editor's layout: the scroll container's position in the
\* viewport and the height of one line; one head per line
HostTop == 3
HostLeft == 2
LineHeight == 2

Heads == 0..MaxHead
Scrolls == 0..MaxScroll

NoOptions == [forcePosition |-> FALSE, restartPhase |-> FALSE]
Options == [forcePosition : BOOLEAN, restartPhase : BOOLEAN]

\* ------------------------------------------------------- the host editor
\* laidOut: the editor can map the head to a rectangle
Views == [hasFocus : BOOLEAN, empty : BOOLEAN, head : Heads,
          laidOut : BOOLEAN, scrollTop : Scrolls]

isCollapsedSelection(v) == v.empty

\* how a call of view.coordsAtPos(head, -1) can end: with a rectangle when
\* the head is laid out, else with null or with an exception
Outcomes(v) == IF v.laidOut THEN {"rect"} ELSE {"null", "throw"}

\* the rectangle of a head that is laid out
coordsAtPos(v, head) ==
    LET top == HostTop + head * LineHeight - v.scrollTop
    IN  [top |-> top, bottom |-> top + LineHeight,
         left |-> HostLeft + head, right |-> HostLeft + head]

\* view.scrollDOM.getBoundingClientRect()
getBoundingClientRect(v) == [top |-> HostTop, left |-> HostLeft]

\* window.setTimeout: a handle no pending timer has
setTimeout(c) == CHOOSE id \in 1..(Cardinality(c.winTimers) + 1) : id \notin c.winTimers

\* --------------------------------------------------------- the controller
\* the fields after the constructor's assignments, before its first
\* scheduleMeasurement
NewView ==
    [phaseTimer |-> Null, lastHead |-> Null, scheduled |-> FALSE,
     pendingOptions |-> <<>>, listening |-> TRUE,
     display |-> "none", top |-> 0, left |-> 0, height |-> Unset,
     phaseClass |-> FALSE, attached |-> TRUE, enabledClass |-> TRUE,
     winTimers |-> {}, measureRequests |-> 0]

\* hideCursor without its clearTimeout: the handle is dropped, the timer stays
hideCursorKeepsTimer(c) ==
    [c EXCEPT !.display = "none", !.phaseClass = FALSE, !.phaseTimer = Null]

\* hideCursor leaving the dimmed class on the hidden overlay
hideCursorKeepsClass(c) ==
    [c EXCEPT !.display = "none",
              !.winTimers = IF c.phaseTimer # Null THEN @ \ {c.phaseTimer} ELSE @,
              !.phaseTimer = Null]

\* hideCursor toggling the dimmed class instead of removing it
hideCursorTogglesClass(c) ==
    [c EXCEPT !.display = "none",
              !.phaseClass = ~@,
              !.winTimers = IF c.phaseTimer # Null THEN @ \ {c.phaseTimer} ELSE @,
              !.phaseTimer = Null]

hideCursor(c) ==
    [c EXCEPT !.display = "none",
              !.phaseClass = FALSE,
              !.winTimers = IF c.phaseTimer # Null THEN @ \ {c.phaseTimer} ELSE @,
              !.phaseTimer = Null]

\* restartPhaseTimer without its clearTimeout of the previous timer
restartPhaseTimerNoClear(c) ==
    LET id == setTimeout(c)
    IN  [c EXCEPT !.phaseClass = FALSE, !.winTimers = @ \cup {id}, !.phaseTimer = id]

restartPhaseTimer(c) ==
    LET cleared == [c EXCEPT !.phaseClass = FALSE,
                             !.winTimers = IF c.phaseTimer # Null
                                           THEN @ \ {c.phaseTimer} ELSE @]
        id == setTimeout(cleared)
    IN  [cleared EXCEPT !.winTimers = @ \cup {id}, !.phaseTimer = id]

\* the timeout callback forgetting to add the class
phaseTimeoutNoClass(c) == [c EXCEPT !.phaseTimer = Null]

\* the callback restartPhaseTimer hands to setTimeout
phaseTimeout(c) == [c EXCEPT !.phaseClass = TRUE, !.phaseTimer = Null]

\* view.requestMeasure(this.measure): one more request in the editor's queue
requestMeasure(c) == [c EXCEPT !.measureRequests = @ + 1]

\* scheduleMeasurement merging the intents before its focus/collapsed guard
scheduleMeasurementMergesFirst(c, v, options) ==
    LET current == IF c.pendingOptions # <<>> THEN c.pendingOptions[1]
                   ELSE NoOptions
        merged == [forcePosition |-> current.forcePosition \/ options.forcePosition,
                   restartPhase |-> current.restartPhase \/ options.restartPhase]
        c1 == [c EXCEPT !.pendingOptions = <<merged>>]
    IN  IF ~v.hasFocus \/ ~isCollapsedSelection(v)
        THEN [hideCursor(c1) EXCEPT !.lastHead = Null]
        ELSE IF ~c1.scheduled
             THEN requestMeasure([c1 EXCEPT !.scheduled = TRUE])
             ELSE c1

\* scheduleMeasurement whose guard hides without forgetting the head
scheduleMeasurementKeepsHead(c, v, options) ==
    IF ~v.hasFocus \/ ~isCollapsedSelection(v)
    THEN hideCursor(c)
    ELSE LET current == IF c.pendingOptions # <<>> THEN c.pendingOptions[1]
                        ELSE NoOptions
             merged == [forcePosition |-> current.forcePosition \/ options.forcePosition,
                        restartPhase |-> current.restartPhase \/ options.restartPhase]
             c1 == [c EXCEPT !.pendingOptions = <<merged>>]
         IN  IF ~c1.scheduled
             THEN requestMeasure([c1 EXCEPT !.scheduled = TRUE])
             ELSE c1

scheduleMeasurement(c, v, options) ==
    IF ~v.hasFocus \/ ~isCollapsedSelection(v)
    THEN [hideCursor(c) EXCEPT !.lastHead = Null]
    ELSE LET current == IF c.pendingOptions # <<>> THEN c.pendingOptions[1]
                        ELSE NoOptions
             merged == [forcePosition |-> current.forcePosition \/ options.forcePosition,
                        restartPhase |-> current.restartPhase \/ options.restartPhase]
             c1 == [c EXCEPT !.pendingOptions = <<merged>>]
         IN  IF ~c1.scheduled
             THEN requestMeasure([c1 EXCEPT !.scheduled = TRUE])
             ELSE c1

\* a read that resets scheduled and leaves pendingOptions in place
readControlKeepsOptions(c) == [c EXCEPT !.scheduled = FALSE]

\* the controller after the read
readControl(c) == [c EXCEPT !.pendingOptions = <<>>, !.scheduled = FALSE]

\* the CursorMeasurement the read returns
\* (<<rect>> or <<>> for `rect?` and `hostRect?`; outcome is how coordsAtPos
\* ends if it is called: the catch block turns "throw" into null)
readMeasurement(c, v, outcome) ==
    LET options == IF c.pendingOptions # <<>> THEN c.pendingOptions[1] ELSE NoOptions
        rect == IF outcome = "rect" THEN <<coordsAtPos(v, v.head)>> ELSE <<>>
    IN  IF ~v.hasFocus \/ ~isCollapsedSelection(v) \/ rect = <<>>
        THEN [visible |-> FALSE, rect |-> <<>>, hostRect |-> <<>>,
              head |-> v.head, options |-> options]
        ELSE [visible |-> TRUE, rect |-> rect,
              hostRect |-> <<getBoundingClientRect(v)>>,
              head |-> v.head, options |-> options]

\* applyMeasurement that hides without forgetting the remembered head
applyMeasurementKeepsHead(c, data) ==
    IF ~data.visible \/ data.rect = <<>> \/ data.hostRect = <<>>
    THEN hideCursor(c)
    ELSE LET headChanged == c.lastHead # data.head
             rect == data.rect[1]
             hostRect == data.hostRect[1]
             painted == [c EXCEPT !.lastHead = data.head,
                                  !.display = "block",
                                  !.height = rect.bottom - rect.top,
                                  !.top = rect.top - hostRect.top,
                                  !.left = rect.left - hostRect.left]
         IN  IF ~data.options.forcePosition /\ ~headChanged
             THEN c
             ELSE IF data.options.restartPhase \/ headChanged
                  THEN restartPhaseTimer(painted)
                  ELSE painted

\* applyMeasurement that skips whenever the head is unchanged, forced or not
applyMeasurementSkipsUnmoved(c, data) ==
    IF ~data.visible \/ data.rect = <<>> \/ data.hostRect = <<>>
    THEN [hideCursor(c) EXCEPT !.lastHead = Null]
    ELSE LET headChanged == c.lastHead # data.head
             rect == data.rect[1]
             hostRect == data.hostRect[1]
             painted == [c EXCEPT !.lastHead = data.head,
                                  !.display = "block",
                                  !.height = rect.bottom - rect.top,
                                  !.top = rect.top - hostRect.top,
                                  !.left = rect.left - hostRect.left]
         IN  IF ~headChanged
             THEN c
             ELSE restartPhaseTimer(painted)

\* applyMeasurement that restarts the blink phase on every write it paints
applyMeasurementAlwaysRestarts(c, data) ==
    IF ~data.visible \/ data.rect = <<>> \/ data.hostRect = <<>>
    THEN [hideCursor(c) EXCEPT !.lastHead = Null]
    ELSE LET headChanged == c.lastHead # data.head
             rect == data.rect[1]
             hostRect == data.hostRect[1]
             painted == [c EXCEPT !.lastHead = data.head,
                                  !.display = "block",
                                  !.height = rect.bottom - rect.top,
                                  !.top = rect.top - hostRect.top,
                                  !.left = rect.left - hostRect.left]
         IN  IF ~data.options.forcePosition /\ ~headChanged
             THEN c
             ELSE restartPhaseTimer(painted)

\* applyMeasurement honouring restartPhase on a write it would skip
applyMeasurementRestartsOnSkip(c, data) ==
    IF ~data.visible \/ data.rect = <<>> \/ data.hostRect = <<>>
    THEN [hideCursor(c) EXCEPT !.lastHead = Null]
    ELSE LET headChanged == c.lastHead # data.head
             rect == data.rect[1]
             hostRect == data.hostRect[1]
             painted == [c EXCEPT !.lastHead = data.head,
                                  !.display = "block",
                                  !.height = rect.bottom - rect.top,
                                  !.top = rect.top - hostRect.top,
                                  !.left = rect.left - hostRect.left]
         IN  IF ~data.options.forcePosition /\ ~headChanged
             THEN IF data.options.restartPhase THEN restartPhaseTimer(c) ELSE c
             ELSE IF data.options.restartPhase \/ headChanged
                  THEN restartPhaseTimer(painted)
                  ELSE painted

applyMeasurement(c, data) ==
    IF ~data.visible \/ data.rect = <<>> \/ data.hostRect = <<>>
    THEN [hideCursor(c) EXCEPT !.lastHead = Null]
    ELSE LET headChanged == c.lastHead # data.head
             rect == data.rect[1]
             hostRect == data.hostRect[1]
             painted == [c EXCEPT !.lastHead = data.head,
                                  !.display = "block",
                                  !.height = rect.bottom - rect.top,
                                  !.top = rect.top - hostRect.top,
                                  !.left = rect.left - hostRect.left]
         IN  IF ~data.options.forcePosition /\ ~headChanged
             THEN c
             ELSE IF data.options.restartPhase \/ headChanged
                  THEN restartPhaseTimer(painted)
                  ELSE painted

Updates == [docChanged : BOOLEAN, selectionSet : BOOLEAN, viewportChanged : BOOLEAN,
            geometryChanged : BOOLEAN, focusChanged : BOOLEAN]

\* update forcing the position for viewport, geometry and focus changes only
updateForcesLayoutOnly(c, v, u) ==
    IF u.docChanged \/ u.selectionSet \/ u.viewportChanged
       \/ u.geometryChanged \/ u.focusChanged
    THEN scheduleMeasurement(c, v,
            [forcePosition |-> u.viewportChanged \/ u.geometryChanged
                               \/ u.focusChanged,
             restartPhase |-> u.docChanged \/ u.selectionSet])
    ELSE c

update(c, v, u) ==
    IF u.docChanged \/ u.selectionSet \/ u.viewportChanged
       \/ u.geometryChanged \/ u.focusChanged
    THEN scheduleMeasurement(c, v,
            [forcePosition |-> u.viewportChanged \/ u.geometryChanged
                               \/ u.focusChanged \/ u.docChanged \/ u.selectionSet,
             restartPhase |-> u.docChanged \/ u.selectionSet])
    ELSE c

\* destroy resetting pendingOptions but not scheduled
destroyKeepsScheduled(c) ==
    [c EXCEPT !.listening = FALSE,
              !.winTimers = IF c.phaseTimer # Null THEN @ \ {c.phaseTimer} ELSE @,
              !.phaseTimer = Null,
              !.pendingOptions = <<>>,
              !.attached = FALSE,
              !.enabledClass = FALSE]

destroy(c) ==
    [c EXCEPT !.listening = FALSE,
              !.winTimers = IF c.phaseTimer # Null THEN @ \ {c.phaseTimer} ELSE @,
              !.phaseTimer = Null,
              !.pendingOptions = <<>>,
              !.scheduled = FALSE,
              !.attached = FALSE,
              !.enabledClass = FALSE]

\* ------------------------------------------------------------ bookkeeping
\* the intents of the triggers the focus/collapsed guard let through since
\* the last read: <<>> when there was none
Accepted(v) == v.hasFocus /\ v.empty

Noted(t, v, options) ==
    IF ~Accepted(v) THEN t
    ELSE IF t = <<>> THEN <<options>>
    ELSE <<[forcePosition |-> t[1].forcePosition \/ options.forcePosition,
            restartPhase |-> t[1].restartPhase \/ options.restartPhase]>>

\* a listener registered by the constructor runs until destroy removes it
Trigger(v, options, name) ==
    /\ vc' = IF vc.listening THEN scheduleMeasurement(vc, v, options) ELSE vc
    /\ trig' = IF vc.listening THEN Noted(trig, v, options) ELSE trig
    /\ last' = IF vc.listening THEN name ELSE "unheard"

ForcePosition == [forcePosition |-> TRUE, restartPhase |-> FALSE]
RestartPhase == [forcePosition |-> FALSE, restartPhase |-> TRUE]
ForceAndRestart == [forcePosition |-> TRUE, restartPhase |-> TRUE]

\* ------------------------------------------------------------------ Init
Init ==
    /\ view \in Views
    /\ vc = scheduleMeasurement(NewView, view, ForceAndRestart)
    /\ measured = <<>>
    /\ raf = 0
    /\ trig = Noted(<<>>, view, ForceAndRestart)
    /\ last = "constructor"

\* --------------------------------------------------------------- actions
\* the editor runs reads and writes of one flush back to back: nothing but
\* the flush's own update reaches the controller between a read and its write
Idle == measured = <<>>

\* what a transaction flagged u may have changed: the selection only with
\* docChanged or selectionSet, the layout only with docChanged,
\* viewportChanged or geometryChanged
Permits(u, v) ==
    /\ (~u.docChanged /\ ~u.selectionSet) => (v.head = view.head /\ v.empty = view.empty)
    /\ (~u.docChanged /\ ~u.viewportChanged /\ ~u.geometryChanged) => v.laidOut = view.laidOut

AnyFlag(u) ==
    u.docChanged \/ u.selectionSet \/ u.viewportChanged \/ u.geometryChanged \/ u.focusChanged

\* the controller and the noted intents after the editor called update(u) in
\* the state v, and whether that was a trigger; the editor calls update
\* until destroy
Updated(v, u) ==
    IF vc.listening
    THEN <<update(vc, v, u),
           IF AnyFlag(u)
           THEN Noted(trig, v, [forcePosition |-> TRUE,
                                restartPhase |-> u.docChanged \/ u.selectionSet])
           ELSE trig,
           IF AnyFlag(u) THEN "update" ELSE "noUpdate">>
    ELSE <<vc, trig, "unheard">>

\* a transaction of the editor: the state changes to v and the plugin's
\* update method is called with flags that permit the change (transactions
\* with the same outcome are one step)
Update(v) ==
    /\ Idle
    /\ v.hasFocus = view.hasFocus
    /\ v.scrollTop = view.scrollTop
    /\ view' = v
    /\ \E r \in {Updated(v, u) : u \in {w \in Updates : Permits(w, v)}} :
          vc' = r[1] /\ trig' = r[2] /\ last' = r[3]
    /\ UNCHANGED <<measured, raf>>

\* the update the editor sends between the reads and the writes of a flush
\* when the measured viewport or geometry differs
MeasureUpdate(u) ==
    /\ ~Idle
    /\ vc.listening
    /\ ~u.docChanged /\ ~u.selectionSet /\ ~u.focusChanged
    /\ u.viewportChanged \/ u.geometryChanged
    /\ vc' = update(vc, view, u)
    /\ trig' = Noted(trig, view, ForcePosition)
    /\ last' = "measureUpdate"
    /\ UNCHANGED <<view, measured, raf>>

OnScroll(v) ==
    /\ Idle
    /\ v.hasFocus = view.hasFocus /\ v.head = view.head /\ v.empty = view.empty
    /\ v.scrollTop # view.scrollTop
    /\ view' = v
    /\ Trigger(v, ForcePosition, "scroll")
    /\ UNCHANGED <<measured, raf>>

OnResize(v) ==
    /\ Idle
    /\ v.hasFocus = view.hasFocus /\ v.head = view.head /\ v.empty = view.empty
    /\ v.scrollTop = view.scrollTop
    /\ view' = v
    /\ Trigger(v, ForcePosition, "resize")
    /\ UNCHANGED <<measured, raf>>

OnBlur ==
    /\ Idle
    /\ view.hasFocus
    /\ view' = [view EXCEPT !.hasFocus = FALSE]
    /\ vc' = IF vc.listening THEN hideCursor(vc) ELSE vc
    /\ last' = IF vc.listening THEN "blur" ELSE "unheard"
    /\ UNCHANGED <<measured, raf, trig>>

\* onFocus asking for a restart of the phase only
OnFocusNoForce ==
    /\ Idle
    /\ ~view.hasFocus
    /\ view' = [view EXCEPT !.hasFocus = TRUE]
    /\ Trigger(view', RestartPhase, "focus")
    /\ UNCHANGED <<measured, raf>>

OnFocus ==
    /\ Idle
    /\ ~view.hasFocus
    /\ view' = [view EXCEPT !.hasFocus = TRUE]
    /\ Trigger(view', ForceAndRestart, "focus")
    /\ UNCHANGED <<measured, raf>>

\* the document's selectionchange event: the listener defers its trigger to
\* an animation frame
OnSelectionChange ==
    /\ Idle
    /\ vc.listening
    /\ view.hasFocus
    /\ raf < MaxRaf
    /\ raf' = raf + 1
    /\ last' = "selectionchange"
    /\ UNCHANGED <<view, vc, measured, trig>>

\* the animation-frame callback: nothing cancels it
AnimationFrame ==
    /\ Idle
    /\ raf > 0
    /\ raf' = raf - 1
    /\ vc' = scheduleMeasurement(vc, view, RestartPhase)
    /\ trig' = Noted(trig, view, RestartPhase)
    /\ last' = "animationFrame"
    /\ UNCHANGED <<view, measured>>

\* the editor runs the read of one queued request
ReadPhase(outcome) ==
    /\ Idle
    /\ vc.measureRequests > 0
    /\ measured' = <<readMeasurement(vc, view, outcome)>>
    /\ vc' = [readControl(vc) EXCEPT !.measureRequests = @ - 1]
    /\ trig' = <<>>
    /\ last' = IF Accepted(view) THEN outcome ELSE "read"
    /\ UNCHANGED <<view, raf>>

\* the branch of applyMeasurement a write takes
WriteBranch(c, data) ==
    IF ~data.visible \/ data.rect = <<>> \/ data.hostRect = <<>> THEN "writeHide"
    ELSE IF ~data.options.forcePosition /\ c.lastHead = data.head THEN "writeSkip"
    ELSE IF data.options.restartPhase \/ c.lastHead # data.head THEN "writeRestart"
    ELSE "writeMove"

\* ... and then its write
WritePhase ==
    /\ ~Idle
    /\ vc' = applyMeasurement(vc, measured[1])
    /\ measured' = <<>>
    /\ last' = WriteBranch(vc, measured[1])
    /\ UNCHANGED <<view, raf, trig>>

\* a pending timer of the window fires
PhaseTimeout(id) ==
    /\ Idle
    /\ id \in vc.winTimers
    /\ vc' = [phaseTimeout(vc) EXCEPT !.winTimers = @ \ {id}]
    /\ last' = "timeout"
    /\ UNCHANGED <<view, measured, raf, trig>>

Destroy ==
    /\ Idle
    /\ vc.listening
    /\ vc' = destroy(vc)
    /\ last' = "destroy"
    /\ UNCHANGED <<view, measured, raf, trig>>

Next ==
    \/ \E v \in Views : Update(v)
    \/ \E u \in Updates : MeasureUpdate(u)
    \/ \E v \in Views : OnScroll(v)
    \/ \E v \in Views : OnResize(v)
    \/ OnBlur
    \/ OnFocus
    \/ OnSelectionChange
    \/ AnimationFrame
    \/ \E outcome \in Outcomes(view) : ReadPhase(outcome)
    \/ WritePhase
    \/ \E id \in vc.winTimers : PhaseTimeout(id)
    \/ Destroy

Spec == Init /\ [][Next]_vars

\* the editor runs the write paired with a read it has run, and the window
\* fires a timer that stays pending
FairSpec ==
    /\ Spec
    /\ WF_vars(WritePhase)
    /\ WF_vars(\E id \in vc.winTimers : PhaseTimeout(id))

TypeOK ==
    /\ view \in Views
    /\ vc.lastHead \in Heads \cup {Null}
    /\ vc.display \in {"none", "block"}
    /\ raf \in 0..MaxRaf

\* ---------------------------------------------------------------- claims
\* the overlay is displayed: the element is in the document and its display
\* is "block"
Displayed == vc.attached /\ vc.display = "block"

\* hidden as hideCursor leaves it: not displayed, not dimmed, no timer
Hidden(c) ==
    c.display = "none" /\ ~c.phaseClass /\ c.phaseTimer = Null /\ c.winTimers = {}

\* the overlay's style shows the rectangle of the head of v, in coordinates
\* of the scroll container
AtHead(c, v) ==
    /\ c.display = "block"
    /\ c.top = v.head * LineHeight - v.scrollTop
    /\ c.left = v.head
    /\ c.height = LineHeight

Style(c) == <<c.display, c.top, c.left, c.height, c.phaseClass>>

ReadStep == measured = <<>> /\ measured' # <<>>

WriteStep == measured # <<>> /\ measured' = <<>>

\* a step in which scheduleMeasurement was called
TriggerStep ==
    last' \in {"update", "measureUpdate", "scroll", "resize", "focus", "animationFrame"}

\* C1 as stated: in every reachable state the overlay is displayed if and
\* only if the surface has focus, the selection is collapsed and the head
\* maps to a rectangle; when one of the three is false the overlay is hidden
\* and no blink timer is pending.
C1_AsStated ==
    /\ Displayed <=> (view.hasFocus /\ view.empty /\ view.laidOut)
    /\ ~(view.hasFocus /\ view.empty /\ view.laidOut)
          => (vc.display = "none" /\ vc.winTimers = {})

\* C1 (amended): while the overlay element is in the document, a surface
\* without focus or a selection that is not collapsed means the overlay is
\* hidden and no blink timer is pending; and when no measurement request is
\* waiting for its flush the overlay is displayed if and only if the surface
\* has focus, the selection is collapsed and the head maps to a rectangle.
C1_DisplayedWhenSettled ==
    /\ (vc.attached /\ ~(view.hasFocus /\ view.empty))
          => (vc.display = "none" /\ vc.winTimers = {} /\ vc.phaseTimer = Null)
    /\ (vc.attached /\ vc.measureRequests = 0 /\ measured = <<>>)
          => (Displayed <=> (view.hasFocus /\ view.empty /\ view.laidOut))

C1_Witness ==
    /\ Displayed
    /\ vc.measureRequests = 0 /\ measured = <<>>
    /\ view.hasFocus /\ view.empty /\ view.laidOut

\* C2: every read consumes exactly the OR of the intents of the triggers
\* accepted since the previous read, and it is the read of the only request
\* submitted for them (one cycle per batch of triggers).
C2_Coalesced ==
    [][ReadStep => /\ trig # <<>>
                   /\ measured'[1].options = trig[1]
                   /\ vc.measureRequests = 1]_vars

\* C3: once destroy has run, no step changes the overlay's style, starts or
\* fires a blink timer, or submits a measurement request.
C3_NothingAfterDestroy ==
    [][~vc.listening => /\ Style(vc') = Style(vc)
                        /\ vc'.winTimers = vc.winTimers
                        /\ vc'.measureRequests <= vc.measureRequests]_vars

\* C4: at most one submitted measurement request is waiting for its read.
C4_OneInFlight == vc.measureRequests <= 1

\* C5: a trigger that finds the surface without focus or the selection not
\* collapsed hides the overlay in that step (not displayed, not dimmed, no
\* timer pending), clears the remembered head, submits no request and
\* leaves the pending intents and the scheduled flag as they were.
C5_RejectedTriggerHides ==
    [][(TriggerStep /\ ~Accepted(view'))
         => /\ Hidden(vc')
            /\ vc'.lastHead = Null
            /\ vc'.measureRequests = vc.measureRequests
            /\ vc'.pendingOptions = vc.pendingOptions
            /\ vc'.scheduled = vc.scheduled
            /\ measured' = measured]_vars

C5_Witness ==
    /\ last = "update"
    /\ view.hasFocus /\ ~view.empty
    /\ vc.scheduled /\ vc.pendingOptions = <<ForcePosition>>
    /\ Hidden(vc) /\ vc.lastHead = Null

\* C6: a read in which coordsAtPos throws or returns null still returns a
\* snapshot, a not-visible one, and the write paired with it hides the
\* overlay, cancels the blink timer and clears the remembered head.
C6_FailedMappingHides ==
    [][ /\ last' \in {"null", "throw"} => (measured' # <<>> /\ ~measured'[1].visible)
        /\ (WriteStep /\ Accepted(view) /\ ~view.laidOut)
              => (~measured[1].visible /\ Hidden(vc') /\ vc'.lastHead = Null) ]_vars

C6_Witness ==
    /\ last = "writeHide"
    /\ Accepted(view) /\ ~view.laidOut
    /\ Hidden(vc) /\ vc.lastHead = Null

\* C7: after a write of a visible snapshot whose head differs from the
\* remembered head or whose intents ask for a restart of the phase, the
\* dimmed class is absent and exactly one blink timer is pending.
C7_RestartAfterWrite ==
    [][(WriteStep /\ measured[1].visible
          /\ (measured[1].options.restartPhase \/ measured[1].head # vc.lastHead))
         => /\ ~vc'.phaseClass
            /\ vc'.phaseTimer # Null
            /\ vc'.winTimers = {vc'.phaseTimer}]_vars

\* C8: while the overlay element is in the document, the write of a cycle
\* read with the surface focused, the selection collapsed and the head laid
\* out leaves the overlay displayed at the rectangle of the current head,
\* whatever the intents of the cycle.
C8_SelfCorrects ==
    [][(WriteStep /\ vc.attached /\ Accepted(view) /\ view.laidOut)
         => AtHead(vc', view)]_vars

C8_Witness ==
    /\ last = "writeRestart"
    /\ vc.attached
    /\ view.head > 0 /\ view.scrollTop > 0
    /\ AtHead(vc, view)

\* C9: at most one blink timer is pending, before and after every step; no
\* timer is pending after a hide (blur, rejected trigger, hiding write) or
\* after destroy; and the dimmed class is added only by the pending timer
\* firing.
C9_OneTimer ==
    [][ /\ Cardinality(vc.winTimers) <= 1 /\ Cardinality(vc'.winTimers) <= 1
        /\ (last' \in {"blur", "writeHide", "destroy"} \/ (TriggerStep /\ ~Accepted(view')))
              => (vc'.winTimers = {} /\ vc'.phaseTimer = Null)
        /\ (vc'.phaseClass /\ ~vc.phaseClass)
              => (last' = "timeout" /\ vc.phaseTimer \in vc.winTimers) ]_vars

C9_Witness ==
    /\ last = "timeout"
    /\ vc.phaseClass /\ vc.winTimers = {} /\ vc.phaseTimer = Null
    /\ vc.display = "block"

\* C10: the write of a force-position-only cycle whose head is the
\* remembered head, with the overlay displayed, puts the overlay at the
\* newly measured rectangle and leaves the dimmed class, the blink timer and
\* the remembered head as they were.
C10_ScrollKeepsPhase ==
    [][(WriteStep /\ measured[1].visible /\ measured[1].options = ForcePosition
          /\ measured[1].head = vc.lastHead /\ vc.display = "block")
         => /\ AtHead(vc', view)
            /\ vc'.phaseClass = vc.phaseClass
            /\ vc'.phaseTimer = vc.phaseTimer
            /\ vc'.winTimers = vc.winTimers
            /\ vc'.lastHead = vc.lastHead]_vars

C10_Witness ==
    /\ last = "writeMove"
    /\ vc.attached /\ vc.phaseClass
    /\ view.scrollTop > 0
    /\ AtHead(vc, view)

\* both intents set
BothIntents == [forcePosition |-> TRUE, restartPhase |-> TRUE]

\* while the controller lives, pending intents with both flags set stay so
\* until a read consumes them
IntentsCarried ==
    [][(vc.listening /\ vc.pendingOptions = <<BothIntents>>
          /\ vc'.listening /\ vc'.pendingOptions # <<BothIntents>>)
         => (ReadStep /\ measured'[1].options = BothIntents)]_vars

\* the write of a visible snapshot read with both intents puts the overlay at
\* the head's rectangle, remembers the head, removes the dimmed class and
\* leaves exactly one blink timer pending
FullCycleWrite ==
    [][(WriteStep /\ measured[1].visible /\ measured[1].options = BothIntents)
         => /\ AtHead(vc', view)
            /\ vc'.lastHead = view.head
            /\ ~vc'.phaseClass
            /\ vc'.phaseTimer # Null
            /\ vc'.winTimers = {vc'.phaseTimer}]_vars

\* a step that is a trigger, a blur, a destroy, or an event after destroy
Interferes ==
    last \in {"update", "measureUpdate", "scroll", "resize", "focus",
              "animationFrame", "blur", "destroy", "unheard"}

\* C11: an update that moves the head (typing), with the surface focused and
\* the selection collapsed, leaves exactly one request submitted with
\* force-position and restart-phase both pending; these intents reach the
\* read; the write puts the overlay at the new head without the dimmed
\* class; and after a write that restarted the phase the dimmed class is
\* eventually added unless a trigger, a blur or a destroy comes first.
C11_TypingCycle ==
    /\ [][(last' = "update" /\ view'.head # view.head /\ Accepted(view'))
            => /\ vc'.pendingOptions = <<BothIntents>>
               /\ vc'.scheduled
               /\ vc'.measureRequests = 1]_vars
    /\ IntentsCarried
    /\ FullCycleWrite
    /\ (last = "writeRestart") ~> (vc.phaseClass \/ Interferes)

C11_Witness ==
    /\ last = "timeout"
    /\ vc.attached /\ vc.phaseClass
    /\ view.head > 0 /\ vc.lastHead = view.head
    /\ AtHead(vc, view)

\* C12: the blur handler hides the overlay and cancels the blink timer in
\* its own step, whatever is queued; a focus event on a collapsed selection
\* leaves exactly one request submitted with force-position and
\* restart-phase both pending (also the first focus, and also when the head
\* is the remembered head); these intents reach the read, and the write of a
\* head that maps puts the overlay at its rectangle without the dimmed class.
C12_BlurThenFocus ==
    /\ [][last' = "blur"
            => /\ Hidden(vc')
               /\ vc'.measureRequests = vc.measureRequests
               /\ measured' = measured]_vars
    /\ [][(last' = "focus" /\ view'.empty)
            => /\ vc'.pendingOptions = <<BothIntents>>
               /\ vc'.scheduled
               /\ vc'.measureRequests = 1]_vars
    /\ IntentsCarried
    /\ FullCycleWrite

C12_Witness ==
    /\ last = "focus"
    /\ view.empty /\ view.laidOut
    /\ vc.lastHead = view.head /\ vc.display = "none"
    /\ vc.pendingOptions = <<BothIntents>> /\ vc.measureRequests = 1

\* C13: from every reachable state, hideCursor applied twice gives the state
\* hideCursor applied once gives, and destroy applied twice gives the state
\* destroy applied once gives.
C13_Idempotent ==
    /\ hideCursor(hideCursor(vc)) = hideCursor(vc)
    /\ destroy(destroy(vc)) = destroy(vc)

C13_Witness ==
    /\ last = "timeout"
    /\ vc.listening /\ vc.display = "block" /\ vc.phaseClass
    /\ hideCursor(vc) # vc
    /\ destroy(vc) # vc
    /\ destroy(hideCursor(vc)) # hideCursor(vc)

\* C14: the write of a visible snapshot read without force-position whose
\* head is the remembered head leaves the controller and the overlay exactly
\* as they were, restart-phase requested or not.
C14_SkippedWriteChangesNothing ==
    [][(WriteStep /\ measured[1].visible
          /\ ~measured[1].options.forcePosition
          /\ measured[1].head = vc.lastHead)
         => vc' = vc]_vars

C14_Witness ==
    /\ last = "writeSkip"
    /\ vc.attached /\ vc.display = "block" /\ vc.phaseClass
    /\ vc.lastHead = view.head

\* the options the update handler is to pass for the flags u
UpdateOptions(u) ==
    [forcePosition |-> \E f \in {"docChanged", "selectionSet", "viewportChanged",
                                  "geometryChanged", "focusChanged"} : u[f],
     restartPhase |-> u.docChanged \/ u.selectionSet]

\* C15: in every reachable state and for each of the 32 flag combinations,
\* the update handler with no flag set returns the controller unchanged, and
\* with a flag set does what scheduleMeasurement does with forcePosition the
\* OR of the five flags and restartPhase = docChanged or selectionSet;
\* restartPhase never comes without forcePosition; and an update step with
\* no flag changes nothing, while one with a flag on a focused collapsed
\* selection leaves forcePosition pending.
C15_UpdateIntents ==
    /\ [](\A u \in Updates :
            /\ ~AnyFlag(u) => update(vc, view, u) = vc
            /\ AnyFlag(u) =>
                 /\ update(vc, view, u) = scheduleMeasurement(vc, view, UpdateOptions(u))
                 /\ UpdateOptions(u).forcePosition
                 /\ Accepted(view) =>
                      update(readControl(vc), view, u).pendingOptions
                        = <<UpdateOptions(u)>>)
    /\ [][last' = "noUpdate" => (vc' = vc /\ measured' = measured)]_vars
    /\ [][(last' = "update" /\ Accepted(view'))
            => (vc'.scheduled /\ vc'.pendingOptions # <<>>
                /\ vc'.pendingOptions[1].forcePosition)]_vars

C15_Witness ==
    /\ last = "update"
    /\ Accepted(view)
    /\ vc.pendingOptions = <<ForcePosition>>
    /\ trig = <<ForcePosition>>

\* C16: a read empties pendingOptions, resets scheduled, takes one request
\* off the editor's queue and changes nothing else of the controller or the
\* overlay, and the snapshot carries the intents that were pending; a trigger
\* on a focused collapsed selection while no intents are pending (also
\* between a read and its write) leaves exactly its own intents pending and
\* submits one more request.
C16_ReadConsumes ==
    /\ [][ReadStep
            => /\ vc' = [vc EXCEPT !.pendingOptions = <<>>,
                                   !.scheduled = FALSE,
                                   !.measureRequests = @ - 1]
               /\ vc.pendingOptions # <<>>
                    => measured'[1].options = vc.pendingOptions[1]]_vars
    /\ [][(TriggerStep /\ vc.listening /\ Accepted(view')
             /\ vc.pendingOptions = <<>>)
            => /\ trig = <<>>
               /\ vc'.pendingOptions = trig'
               /\ Len(trig') = 1
               /\ vc'.scheduled
               /\ vc'.measureRequests = vc.measureRequests + 1]_vars

C16_Witness ==
    /\ last = "measureUpdate"
    /\ measured # <<>>
    /\ measured[1].options = BothIntents
    /\ vc.pendingOptions = <<ForcePosition>>
    /\ vc.scheduled

\* C17: in every reachable state the dimmed class and a pending blink timer
\* (the handle the controller holds, or any timer the window holds) exclude
\* each other, and each of them implies that the overlay's display is block.
C17_PhaseOnlyWhileDisplayed ==
    /\ ~(vc.phaseClass /\ vc.phaseTimer # Null)
    /\ ~(vc.phaseClass /\ vc.winTimers # {})
    /\ vc.phaseClass => vc.display = "block"
    /\ vc.phaseTimer # Null => vc.display = "block"
    /\ vc.winTimers # {} => vc.display = "block"

C17_Witness ==
    /\ last = "writeMove"
    /\ vc.display = "block" /\ vc.phaseClass
    /\ vc.phaseTimer = Null /\ vc.winTimers = {}

\* C18 as stated: a remembered head implies that the overlay is displayed
C18_AsStated == vc.lastHead # Null => vc.display = "block"

\* C18: while the overlay is in the document, a remembered head on a hidden
\* overlay occurs only while the surface lacks focus or while force-position
\* is pending or carried by the snapshot about to be written; the blur
\* handler is the only step that hides a displayed overlay and keeps the
\* remembered head; and a skipped write finds the overlay displayed.
C18_HiddenHeadIsForced ==
    /\ []((vc.attached /\ vc.lastHead # Null /\ vc.display = "none")
           => \/ ~view.hasFocus
              \/ vc.pendingOptions # <<>> /\ vc.pendingOptions[1].forcePosition
              \/ measured # <<>> /\ measured[1].options.forcePosition)
    /\ [][(vc.display = "block" /\ vc'.display = "none" /\ vc'.lastHead # Null)
            => last' = "blur"]_vars
    /\ [][(vc.attached /\ last' = "writeSkip")
            => (vc.display = "block" /\ vc'.display = "block")]_vars

C18_Witness ==
    /\ vc.attached /\ vc.display = "none"
    /\ measured # <<>>
    /\ measured[1].visible
    /\ measured[1].head = vc.lastHead
    /\ measured[1].options.forcePosition

\* C19: in every reachable state pendingOptions is defined exactly when
\* scheduled is set, and a trigger the focus/collapsed guard rejects changes
\* neither.
C19_PendingIffScheduled ==
    /\ []((vc.pendingOptions # <<>>) <=> vc.scheduled)
    /\ [][(TriggerStep /\ ~Accepted(view'))
            => /\ vc'.pendingOptions = vc.pendingOptions
               /\ vc'.scheduled = vc.scheduled]_vars

C19_Witness ==
    /\ last = "scroll"
    /\ ~Accepted(view)
    /\ vc.scheduled
    /\ vc.pendingOptions = <<BothIntents>>
    /\ vc.lastHead = Null /\ vc.display = "none"

====
